---- MODULE Spec2Model ----
(***************************************************************************)
(* A model of the Tarzan interpreter (src/tarzan.c): a fused               *)
(* scan-parse-execute engine working on one byte buffer with one cursor.   *)
(* Bytes are one-character strings, positions are 0-based as in the C      *)
(* code, Numbers are records [value, exponent] standing for                *)
(* value * 10^exponent.                                                    *)
(***************************************************************************)
EXTENDS Integers, Sequences, FiniteSets, TLC

VARIABLES
  input,          \* which source file was given to the interpreter
  file_data,      \* the source buffer, a sequence of bytes
  oob,            \* the byte found right behind the buffer (indeterminate in C)
  read_position,  \* the cursor
  variables,      \* the environment: sequence of [name, value, level]
  jump_stack,     \* sequence of [type, index]
  block_level,    \* current block level
  output,         \* lines written to stdout, oldest first
  result,         \* the Number last returned by evaluate_expression to a caller
  status          \* "running", "done" (loop of main ended), "exit" (exit(1)), "hang"

vars == <<input, file_data, oob, read_position, variables, jump_stack, block_level,
          output, result, status>>

----------------------------------------------------------------------------
(* Bytes *)

NUL == "NUL"
Digits == {"0", "1", "2", "3", "4", "5", "6", "7", "8", "9"}
Lower == {"a", "b", "c", "d", "e", "f", "g", "h", "i", "j", "k", "l", "m",
          "n", "o", "p", "q", "r", "s", "t", "u", "v", "w", "x", "y", "z"}

DigitVal(c) ==
  CASE c = "0" -> 0 [] c = "1" -> 1 [] c = "2" -> 2 [] c = "3" -> 3
    [] c = "4" -> 4 [] c = "5" -> 5 [] c = "6" -> 6 [] c = "7" -> 7
    [] c = "8" -> 8 [] c = "9" -> 9

file_size == Len(file_data)

\* file_data[p] as the C code reads it.  A read at or behind file_size is
\* outside the buffer: the first byte there is the indeterminate byte oob,
\* the bytes after it are taken to be zero.
At(p) == IF p < file_size THEN file_data[p + 1]
         ELSE IF p = file_size THEN oob ELSE NUL

is_token(p, token) ==
  IF p + Len(token) > file_size THEN FALSE
  ELSE \A i \in 1..Len(token) : file_data[p + i] = token[i]

----------------------------------------------------------------------------
(* Jump types, operators, comparators *)

skip_else == 1
iterate == 2
skip_else_jump == [type |-> 1, index |-> 0]

plus == 1
minus == 2
multiply == 3
divide == 4

equal_to == 1
less_than == 2
greater_than == 3
less_than_or_equal_to == 4
greater_than_or_equal_to == 5

----------------------------------------------------------------------------
(* The array container (include/array.h), by its contract *)

array_last(arr) == Len(arr) - 1
array_pop(arr) == SubSeq(arr, 1, Len(arr) - 1)
array_push(arr, item) == Append(arr, item)
array_get(arr, index) == arr[index + 1]
array_set(arr, index, item) == [arr EXCEPT ![index + 1] = item]

----------------------------------------------------------------------------
(* Numbers *)

Number(v, e) == [value |-> v, exponent |-> e]
Zero == Number(0, 0)

Abs(n) == IF n < 0 THEN -n ELSE n

\* C integer division truncates toward zero
TruncDiv(a, b) ==
  LET q == Abs(a) \div Abs(b) IN IF (a < 0) # (b < 0) THEN -q ELSE q

RECURSIVE ParseDigits(_, _, _)
ParseDigits(p, number, decimal) ==
  IF At(p) \in Digits \/ At(p) = "."
  THEN IF At(p) = "."
       THEN ParseDigits(p + 1, number, TRUE)
       ELSE ParseDigits(p + 1,
              Number(number.value * 10 + DigitVal(At(p)),
                     IF decimal THEN number.exponent - 1 ELSE number.exponent),
              decimal)
  ELSE [pos |-> p, num |-> number]

\* lines 128-131: r is the outcome of the digit loop
Signed(negative, r) ==
  [pos |-> r.pos,
   num |-> IF negative THEN Number(-r.num.value, r.num.exponent) ELSE r.num]

parse_number(p) ==
  Signed(At(p) = "-", ParseDigits(IF At(p) = "-" THEN p + 1 ELSE p, Zero, FALSE))

\* returns the pair <<a, b>> after alignment at the lowest exponent
align_exponents(a, b) ==
  IF a.exponent < b.exponent
  THEN <<a, Number(b.value * 10^(b.exponent - a.exponent), a.exponent)>>
  ELSE IF a.exponent > b.exponent
  THEN <<Number(a.value * 10^(a.exponent - b.exponent), b.exponent), b>>
  ELSE <<a, b>>

add_decimals(number, decimals) ==
  Number(number.value * 10^decimals, number.exponent - decimals)

\* (v * 10^k) / d as C computes it in 64 bits, truncating toward zero.  The
\* integers of the checker have 32 bits, so the quotient is obtained by long
\* division, one decimal digit per step, which never forms the product
\* v * 10^k and yields the same quotient.
RECURSIVE LongDivision(_, _, _, _)
LongDivision(quotient, remainder, k, d) ==
  IF k = 0 THEN quotient
  ELSE LongDivision(quotient * 10 + (remainder * 10) \div d,
                    (remainder * 10) % d, k - 1, d)

ScaledQuotient(v, k, d) ==
  LET q == LongDivision(Abs(v) \div Abs(d), Abs(v) % Abs(d), k, Abs(d))
  IN IF (v < 0) # (d < 0) THEN -q ELSE q

divide_numbers(a, b) ==
  IF b.value # 0
  THEN LET decimals == 3 + Abs(a.exponent)
       IN Number(ScaledQuotient(a.value, decimals, b.value),
                 add_decimals(Number(0, a.exponent), decimals).exponent - b.exponent)
  ELSE Zero

\* compact_number with an if in place of the while of line 224
CompactOnce(number) ==
  IF number.value % 10 = 0 /\ number.value # 0
  THEN Number(number.value \div 10, number.exponent + 1)
  ELSE number

RECURSIVE compact_number(_)
compact_number(number) ==
  IF number.value % 10 = 0 /\ number.value # 0
  THEN compact_number(Number(number.value \div 10, number.exponent + 1))
  ELSE number

----------------------------------------------------------------------------
(* The environment *)

RECURSIVE ScanLookup(_, _, _)
ScanLookup(vs, name, index) ==
  IF index >= 0
  THEN IF array_get(vs, index).name = name THEN index
       ELSE ScanLookup(vs, name, index - 1)
  ELSE -1

\* get_variable_index scanning from the oldest variable on
RECURSIVE ScanLookupUp(_, _, _)
ScanLookupUp(vs, name, index) ==
  IF index < Len(vs)
  THEN IF array_get(vs, index).name = name THEN index
       ELSE ScanLookupUp(vs, name, index + 1)
  ELSE -1

OldestVariableIndex(vs, name) == ScanLookupUp(vs, name, 0)

get_variable_index(vs, name) == ScanLookup(vs, name, Len(vs) - 1)

\* the scan over [a-z_] shared by parse_get_variable, new_variable, set_variable
RECURSIVE ScanName(_, _)
ScanName(p, name) ==
  IF At(p) \in Lower \/ At(p) = "_"
  THEN ScanName(p + 1, Append(name, At(p)))
  ELSE [pos |-> p, name |-> name]

\* lines 180-190: n is the name scanned and the cursor behind it;
\* outcome "exit" is exit(1) after "Variable not found"
GetVariable(n, variable_index) ==
  IF variable_index >= 0
  THEN [pos |-> n.pos, num |-> array_get(variables, variable_index).value,
        outcome |-> "ok"]
  ELSE [pos |-> n.pos, num |-> Zero, outcome |-> "exit"]

parse_get_variable(p) ==
  GetVariable(ScanName(p, <<>>), get_variable_index(variables, ScanName(p, <<>>).name))

----------------------------------------------------------------------------
(* The expression evaluator: a window of three numbers and two operators *)

EmptyWindow ==
  [parsed_numbers |-> 0, first_number |-> Zero, second_number |-> Zero,
   third_number |-> Zero, op_code |-> 0, op_code2 |-> 0]

\* lines 247-249 and their three copies
SetOperator(w, op) ==
  LET op1 == IF w.op_code = 0 THEN op ELSE w.op_code
  IN [w EXCEPT !.op_code = op1, !.op_code2 = IF op1 > 0 THEN op ELSE 0]

\* lines 264-273 and their two copies
PushNumber(w, number) ==
  IF w.parsed_numbers = 0
  THEN [w EXCEPT !.first_number = number, !.parsed_numbers = 1]
  ELSE IF w.parsed_numbers = 1
  THEN [w EXCEPT !.second_number = number, !.parsed_numbers = 2]
  ELSE [w EXCEPT !.third_number = number, !.parsed_numbers = w.parsed_numbers + 1]

\* lines 314-318: the second operator applied to the aligned numbers a, b
FoldSecond(op, a, b) ==
  IF op = multiply THEN Number(a.value * b.value, a.exponent + b.exponent)
  ELSE divide_numbers(a, b)

\* lines 324-333: the first operator applied to the aligned numbers a, b
FoldFirst(op, a, b) ==
  IF op = plus THEN Number(a.value + b.value, a.exponent)
  ELSE IF op = minus THEN Number(a.value - b.value, a.exponent)
  ELSE IF op = multiply THEN Number(a.value * b.value, a.exponent + b.exponent)
  ELSE IF op = divide THEN divide_numbers(a, b)
  ELSE a

\* RunWindow without the test of line 312: the first operator always runs
RunWindowFirstOnly(w) ==
  IF w.parsed_numbers = 3
  THEN [w EXCEPT
          !.first_number =
             FoldFirst(w.op_code,
                       align_exponents(w.first_number, w.second_number)[1],
                       align_exponents(w.first_number, w.second_number)[2]),
          !.second_number = w.third_number,
          !.op_code = w.op_code2, !.third_number = Zero,
          !.op_code2 = 0, !.parsed_numbers = 2]
  ELSE w

\* lines 310-342
RunWindow(w) ==
  IF w.parsed_numbers = 3
  THEN IF w.op_code2 = multiply \/ w.op_code2 = divide
       THEN [w EXCEPT
               !.second_number =
                  FoldSecond(w.op_code2,
                             align_exponents(w.second_number, w.third_number)[1],
                             align_exponents(w.second_number, w.third_number)[2]),
               !.third_number = Zero, !.op_code2 = 0, !.parsed_numbers = 2]
       ELSE [w EXCEPT
               !.first_number =
                  FoldFirst(w.op_code,
                            align_exponents(w.first_number, w.second_number)[1],
                            align_exponents(w.first_number, w.second_number)[2]),
               !.second_number = w.third_number,
               !.op_code = w.op_code2, !.third_number = Zero,
               !.op_code2 = 0, !.parsed_numbers = 2]
  ELSE w

\* lines 346-358: the remaining operator applied to the aligned numbers a, b
FinishTwo(op, a, b) ==
  IF op = plus THEN Number(a.value + b.value, a.exponent)
  ELSE IF op = minus THEN Number(a.value - b.value, a.exponent)
  ELSE IF op = multiply THEN Number(a.value * b.value, a.exponent + b.exponent)
  ELSE IF op = divide THEN divide_numbers(a, b)
  ELSE Number(0, a.exponent)

\* lines 344-363
FinishWindow(w) ==
  IF w.parsed_numbers = 2
  THEN FinishTwo(w.op_code,
                 align_exponents(w.first_number, w.second_number)[1],
                 align_exponents(w.first_number, w.second_number)[2])
  ELSE IF w.parsed_numbers = 1 THEN w.first_number
  ELSE Zero

RECURSIVE SkipSpaceTokens(_)
SkipSpaceTokens(p) == IF is_token(p, <<" ">>) THEN SkipSpaceTokens(p + 1) ELSE p

IsTerminator(p) ==
  \/ is_token(p, <<")">>) \/ is_token(p, <<";">>) \/ is_token(p, <<"<">>)
  \/ is_token(p, <<">">>) \/ is_token(p, <<"=">>)

\* evaluate_expression(p) is the call made with read_position = p.  It yields
\* the cursor after the call, the Number returned and the outcome: "ok",
\* "exit" (exit(1) in parse_get_variable) or "hang" (the loop of line 241
\* repeats without changing anything).
RECURSIVE evaluate_expression(_), EvalLoop(_, _), EvalStep(_, _, _)
EvalLoop(p, w) ==
  IF IsTerminator(p) \/ ~(p < file_size)
  THEN [pos |-> p, num |-> compact_number(FinishWindow(w)), outcome |-> "ok"]
  ELSE EvalStep(p, SkipSpaceTokens(p), w)

\* lines 263-273: the number n parsed goes into the window
EvalNumber(n, w) == EvalLoop(n.pos, RunWindow(PushNumber(w, n.num)))

\* lines 278-288, 294-305: the value of a variable or of a ( ) goes into the
\* window, or its outcome ends the evaluation; skip is 1 to step over the )
EvalOperand(r, skip, w) ==
  IF r.outcome = "ok" THEN EvalLoop(r.pos + skip, RunWindow(PushNumber(w, r.num)))
  ELSE [pos |-> r.pos, num |-> Zero, outcome |-> r.outcome]

\* one pass of the loop body, lines 245-342: p is the cursor at the loop test,
\* q the cursor behind the spaces
EvalStep(p, q, w) ==
  IF is_token(q, <<"+">>) THEN EvalLoop(q + 1, RunWindow(SetOperator(w, plus)))
  ELSE IF is_token(q, <<"-">>) THEN EvalLoop(q + 1, RunWindow(SetOperator(w, minus)))
  ELSE IF is_token(q, <<"*">>) THEN EvalLoop(q + 1, RunWindow(SetOperator(w, multiply)))
  ELSE IF is_token(q, <<"/">>) THEN EvalLoop(q + 1, RunWindow(SetOperator(w, divide)))
  ELSE IF At(q) \in Digits THEN EvalNumber(parse_number(q), w)
  ELSE IF At(q) \in Lower THEN EvalOperand(parse_get_variable(q), 0, w)
  ELSE IF is_token(q, <<"(">>) THEN EvalOperand(evaluate_expression(q + 1), 1, w)
  ELSE IF q = p
  THEN [pos |-> p, num |-> Zero, outcome |-> "hang"]
  ELSE EvalLoop(q, RunWindow(w))

evaluate_expression(p) == EvalLoop(p, EmptyWindow)

----------------------------------------------------------------------------
(* Block skimming *)

RECURSIVE enter_block_scan(_)
enter_block_scan(p) ==
  IF ~is_token(p, <<"{">>) /\ p < file_size THEN enter_block_scan(p + 1) ELSE p

enter_block(p) == enter_block_scan(p) + 1

RECURSIVE skip_block_scan(_, _)
skip_block_scan(p, block_count) ==
  IF block_count > 0 /\ p < file_size
  THEN skip_block_scan(p + 1,
         IF is_token(p, <<"{">>) THEN block_count + 1
         ELSE IF is_token(p, <<"}">>) THEN block_count - 1
         ELSE block_count)
  ELSE p

skip_block(p) == skip_block_scan(p, 1)

RECURSIVE skip_line_scan(_)
skip_line_scan(p) ==
  IF ~is_token(p, <<"\n">>) /\ p < file_size THEN skip_line_scan(p + 1) ELSE p

skip_line(p) == skip_line_scan(p) + 1

RECURSIVE skip_spaces(_)
skip_spaces(p) ==
  IF is_token(p, <<" ">>) /\ p < file_size THEN skip_spaces(p + 1) ELSE p

RECURSIVE skip_elses(_)
skip_elses(p) ==
  IF is_token(p, <<"e", "l", "s", "e">>) /\ p < file_size
  THEN skip_elses(skip_spaces(skip_block(enter_block(p + 4))))
  ELSE p

----------------------------------------------------------------------------
(* Conditions *)

Compare(comparator, a, b) ==
  IF comparator = equal_to THEN a = b
  ELSE IF comparator = less_than THEN a < b
  ELSE IF comparator = greater_than THEN a > b
  ELSE IF comparator = less_than_or_equal_to THEN a <= b
  ELSE IF comparator = greater_than_or_equal_to THEN a >= b
  ELSE FALSE

\* lines 513-528: the comparator code and the cursor behind it
ReadComparator(p) ==
  IF is_token(p, <<"=", "=">>) THEN [pos |-> p + 2, comparator |-> equal_to]
  ELSE IF is_token(p, <<"<", "=">>) THEN [pos |-> p + 2, comparator |-> less_than_or_equal_to]
  ELSE IF is_token(p, <<"<">>) THEN [pos |-> p + 1, comparator |-> less_than]
  ELSE IF is_token(p, <<">", "=">>) THEN [pos |-> p + 2, comparator |-> greater_than_or_equal_to]
  ELSE IF is_token(p, <<">">>) THEN [pos |-> p + 1, comparator |-> greater_than]
  ELSE [pos |-> p, comparator |-> 0]

\* lines 531-546: both numbers are there
ConditionResult(first, comparator, second) ==
  IF second.outcome # "ok"
  THEN [pos |-> second.pos, result |-> FALSE, outcome |-> second.outcome]
  ELSE [pos |-> second.pos,
        result |-> Compare(comparator,
                           align_exponents(first.num, second.num)[1].value,
                           align_exponents(first.num, second.num)[2].value),
        outcome |-> "ok"]

\* lines 529-530: c is the comparator read behind the first number
ConditionSecond(first, c) ==
  ConditionResult(first, c.comparator, evaluate_expression(skip_spaces(c.pos)))

\* lines 510-528: first is the outcome of the first evaluate_expression
ConditionFirst(first) ==
  IF first.outcome # "ok"
  THEN [pos |-> first.pos, result |-> FALSE, outcome |-> first.outcome]
  ELSE ConditionSecond(first, ReadComparator(skip_spaces(first.pos)))

evaluate_condition(p) == ConditionFirst(evaluate_expression(p))

----------------------------------------------------------------------------
(* Block level *)

\* the loop of lines 137-144: one step per index, popping the tail whenever
\* the variable at index is of the closing level
RECURSIVE PruneLoop(_, _, _)
PruneLoop(vs, index, level) ==
  IF index >= 0
  THEN PruneLoop(IF array_get(vs, index).level = level THEN array_pop(vs) ELSE vs,
                 index - 1, level)
  ELSE vs

\* decrese_block_level with the loop started one index too low
PruneFromSecondLast(vs, level) == PruneLoop(vs, array_last(vs) - 1, level)

\* the environment after decrese_block_level; the level becomes level - 1
decrese_block_level(vs, level) == PruneLoop(vs, array_last(vs), level)

----------------------------------------------------------------------------
(* The statement dispatcher: one action per branch of parse_token, each the *)
(* whole call, with the loop of main as its guard                           *)

MaxOutput == 8

RECURSIVE SkipBlanks(_)
SkipBlanks(p) ==
  IF is_token(p, <<" ">>) \/ is_token(p, <<"\n">>) THEN SkipBlanks(p + 1) ELSE p

\* which branch of lines 555-642 is taken with the cursor at p
TokenKind(p) ==
  IF is_token(p, <<"}">>) THEN "}"
  ELSE IF is_token(p, <<"i", "f">>) THEN "if"
  ELSE IF is_token(p, <<"e", "l", "s", "e", " ", "i", "f">>) THEN "else if"
  ELSE IF is_token(p, <<"e", "l", "s", "e">>) THEN "else"
  ELSE IF is_token(p, <<"w", "h", "i", "l", "e">>) THEN "while"
  ELSE IF is_token(p, <<"/", "/">>) THEN "//"
  ELSE IF is_token(p, <<"v", "a", "r">>) THEN "var"
  ELSE IF is_token(p, <<"p", "r", "i", "n", "t">>) THEN "print"
  ELSE IF At(p) \in Lower THEN "set"
  ELSE "other"

\* the cursor after the blanks skipped at the start of parse_token
Tok == SkipBlanks(read_position)

Dispatch(kind) ==
  /\ status = "running"
  /\ read_position < file_size
  /\ TokenKind(Tok) = kind

PrintLine(number) == [kind |-> "print", num |-> number]
UnknownLine(byte) == [kind |-> "unknown", byte |-> byte]

\* exit(1) or an endless loop inside a handler: nothing else changes any more
Stop(outcome, p) ==
  /\ status' = outcome
  /\ read_position' = p
  /\ UNCHANGED <<file_data, oob, input, variables, jump_stack, block_level,
                 output, result>>

\* CloseBrace leaving a block also when no Jump was popped
CloseBraceAlwaysLeaves ==
  /\ Dispatch("}")
  /\ IF Len(jump_stack) = 0
     THEN /\ read_position' = Tok + 1
          /\ variables' = decrese_block_level(variables, block_level)
          /\ block_level' = block_level - 1
          /\ UNCHANGED jump_stack
     ELSE /\ jump_stack' = array_pop(jump_stack)
          /\ variables' = decrese_block_level(variables, block_level)
          /\ block_level' = block_level - 1
          /\ read_position' =
               IF jump_stack[Len(jump_stack)].type = skip_else
               THEN skip_elses(skip_spaces(Tok + 1))
               ELSE IF jump_stack[Len(jump_stack)].type = iterate
               THEN jump_stack[Len(jump_stack)].index
               ELSE Tok + 1
  /\ UNCHANGED <<file_data, oob, input, output, result, status>>

\* lines 555-566
CloseBrace ==
  /\ Dispatch("}")
  /\ IF Len(jump_stack) = 0
     THEN /\ read_position' = Tok + 1
          /\ UNCHANGED <<jump_stack, variables, block_level>>
     ELSE LET jump == jump_stack[Len(jump_stack)]
          IN /\ jump_stack' = array_pop(jump_stack)
             /\ variables' = decrese_block_level(variables, block_level)
             /\ block_level' = block_level - 1
             /\ read_position' =
                  IF jump.type = skip_else THEN skip_elses(skip_spaces(Tok + 1))
                  ELSE IF jump.type = iterate THEN jump.index
                  ELSE Tok + 1
  /\ UNCHANGED <<file_data, oob, input, output, result, status>>

\* lines 572-581, 586-595, 608-615: c is the outcome of evaluate_condition
BranchOn(c, jump) ==
  IF c.outcome # "ok" THEN Stop(c.outcome, c.pos)
  ELSE /\ IF c.result
          THEN /\ jump_stack' = array_push(jump_stack, jump)
               /\ read_position' = enter_block(c.pos)
               /\ block_level' = block_level + 1
          ELSE /\ read_position' = skip_block(enter_block(c.pos))
               /\ UNCHANGED <<jump_stack, block_level>>
       /\ UNCHANGED <<file_data, oob, input, variables, output, result, status>>

\* lines 570-581, 584-595, 606-615: p is the cursor behind the keyword
Branch(p, jump) == BranchOn(evaluate_condition(skip_spaces(p) + 1), jump)

\* lines 567-581
IfStatement == Dispatch("if") /\ Branch(Tok + 2, skip_else_jump)

\* lines 582-595
ElseIfStatement == Dispatch("else if") /\ Branch(Tok + 7, skip_else_jump)

\* lines 596-599
ElseStatement ==
  /\ Dispatch("else")
  /\ read_position' = enter_block(Tok + 4)
  /\ block_level' = block_level + 1
  /\ UNCHANGED <<file_data, oob, input, variables, jump_stack, output, result, status>>

\* lines 600-615
WhileStatement ==
  /\ Dispatch("while")
  /\ Branch(Tok + 5, [type |-> iterate, index |-> Tok])

\* lines 618-619
Comment ==
  /\ Dispatch("//")
  /\ read_position' = skip_line(Tok)
  /\ UNCHANGED <<file_data, oob, input, variables, jump_stack, block_level,
                 output, result, status>>

RECURSIVE SkipSpacesAndEquals(_)
SkipSpacesAndEquals(p) ==
  IF is_token(p, <<" ">>) \/ is_token(p, <<"=">>) THEN SkipSpacesAndEquals(p + 1) ELSE p

\* lines 397-407: e is the outcome of evaluate_expression
PushVariable(name, e) ==
  IF e.outcome # "ok" THEN Stop(e.outcome, e.pos)
  ELSE /\ read_position' = e.pos + 1
       /\ result' = e.num
       /\ variables' = array_push(variables,
            [value |-> e.num, name |-> name, level |-> block_level])
       /\ UNCHANGED <<file_data, oob, input, jump_stack, block_level, output, status>>

\* lines 376-395: n is the name scanned and the cursor behind it
NewVariableNamed(n) ==
  PushVariable(n.name, evaluate_expression(SkipSpacesAndEquals(n.pos)))

\* lines 622-625 with new_variable, lines 369-408
NewVariable ==
  /\ Dispatch("var")
  /\ NewVariableNamed(ScanName(SkipSpaceTokens(Tok + 3), <<>>))

\* lines 631-632: e is the outcome of evaluate_expression
PrintResult(e) ==
  IF e.outcome # "ok" THEN Stop(e.outcome, e.pos)
  ELSE /\ read_position' = skip_line(e.pos)
       /\ result' = e.num
       /\ output' = Append(output, PrintLine(e.num))
       /\ UNCHANGED <<file_data, oob, input, variables, jump_stack, block_level, status>>

\* lines 628-632
PrintStatement ==
  /\ Dispatch("print")
  /\ Len(output) < MaxOutput
  /\ PrintResult(evaluate_expression(Tok + 6))

\* lines 439-449: e is the outcome of evaluate_expression
StoreVariable(variable_index, e) ==
  IF e.outcome # "ok" THEN Stop(e.outcome, e.pos)
  ELSE /\ read_position' = e.pos + 1
       /\ result' = e.num
       /\ variables' = array_set(variables, variable_index,
            [name |-> array_get(variables, variable_index).name,
             value |-> e.num,
             level |-> array_get(variables, variable_index).level])
       /\ UNCHANGED <<file_data, oob, input, jump_stack, block_level, output, status>>

\* lines 430-453: n is the name scanned and the cursor behind it
SetVariableNamed(n, variable_index) ==
  IF variable_index < 0 THEN Stop("exit", n.pos)
  ELSE StoreVariable(variable_index,
                     evaluate_expression(SkipSpacesAndEquals(n.pos)))

\* lines 635-636 with set_variable, lines 411-456
SetVariable ==
  /\ Dispatch("set")
  /\ SetVariableNamed(ScanName(Tok, <<>>),
                      get_variable_index(variables, ScanName(Tok, <<>>).name))

\* lines 639-642
UnknownToken ==
  /\ Dispatch("other")
  /\ Len(output) < MaxOutput
  /\ output' = Append(output, UnknownLine(At(Tok)))
  /\ read_position' = Tok + 1
  /\ UNCHANGED <<file_data, oob, input, variables, jump_stack, block_level, result, status>>

\* lines 672-674: the loop of main ends
Finish ==
  /\ status = "running"
  /\ ~(read_position < file_size)
  /\ status' = "done"
  /\ UNCHANGED <<file_data, oob, input, read_position, variables, jump_stack,
                 block_level, output, result>>

----------------------------------------------------------------------------
(* The source files given to the interpreter *)

\* ChainFirst:
\*   var n = 5;
\*   if (n > 0) {
\*   print 1;
\*   } else if (n == 0) {
\*   print 2;
\*   } else {
\*   print 3;
\*   }
\*   print 9;
SourceChainFirst ==
  <<"v", "a", "r", " ", "n", " ", "=", " ", "5", ";", "\n", "i", "f", " ",
    "(", "n", " ", ">", " ", "0", ")", " ", "{", "\n", "p", "r", "i", "n",
    "t", " ", "1", ";", "\n", "}", " ", "e", "l", "s", "e", " ", "i", "f",
    " ", "(", "n", " ", "=", "=", " ", "0", ")", " ", "{", "\n", "p", "r",
    "i", "n", "t", " ", "2", ";", "\n", "}", " ", "e", "l", "s", "e", " ",
    "{", "\n", "p", "r", "i", "n", "t", " ", "3", ";", "\n", "}", "\n", "p",
    "r", "i", "n", "t", " ", "9", ";", "\n">>

\* ChainSecond:
\*   var n = 0;
\*   if (n > 0) {
\*   print 1;
\*   } else if (n == 0) {
\*   print 2;
\*   } else {
\*   print 3;
\*   }
\*   print 9;
SourceChainSecond ==
  <<"v", "a", "r", " ", "n", " ", "=", " ", "0", ";", "\n", "i", "f", " ",
    "(", "n", " ", ">", " ", "0", ")", " ", "{", "\n", "p", "r", "i", "n",
    "t", " ", "1", ";", "\n", "}", " ", "e", "l", "s", "e", " ", "i", "f",
    " ", "(", "n", " ", "=", "=", " ", "0", ")", " ", "{", "\n", "p", "r",
    "i", "n", "t", " ", "2", ";", "\n", "}", " ", "e", "l", "s", "e", " ",
    "{", "\n", "p", "r", "i", "n", "t", " ", "3", ";", "\n", "}", "\n", "p",
    "r", "i", "n", "t", " ", "9", ";", "\n">>

\* ChainLast:
\*   var n = 0 - 3;
\*   if (n > 0) {
\*   print 1;
\*   } else if (n == 0) {
\*   print 2;
\*   } else {
\*   print 3;
\*   }
\*   print 9;
SourceChainLast ==
  <<"v", "a", "r", " ", "n", " ", "=", " ", "0", " ", "-", " ", "3", ";",
    "\n", "i", "f", " ", "(", "n", " ", ">", " ", "0", ")", " ", "{", "\n",
    "p", "r", "i", "n", "t", " ", "1", ";", "\n", "}", " ", "e", "l", "s",
    "e", " ", "i", "f", " ", "(", "n", " ", "=", "=", " ", "0", ")", " ",
    "{", "\n", "p", "r", "i", "n", "t", " ", "2", ";", "\n", "}", " ", "e",
    "l", "s", "e", " ", "{", "\n", "p", "r", "i", "n", "t", " ", "3", ";",
    "\n", "}", "\n", "p", "r", "i", "n", "t", " ", "9", ";", "\n">>

\* WhileCount:
\*   var x = 0;
\*   while (x < 3) {
\*   print x;
\*   x = x + 1;
\*   }
SourceWhileCount ==
  <<"v", "a", "r", " ", "x", " ", "=", " ", "0", ";", "\n", "w", "h", "i",
    "l", "e", " ", "(", "x", " ", "<", " ", "3", ")", " ", "{", "\n", "p",
    "r", "i", "n", "t", " ", "x", ";", "\n", "x", " ", "=", " ", "x", " ",
    "+", " ", "1", ";", "\n", "}", "\n">>

\* WhileScope:
\*   var x = 0;
\*   while (x < 2) {
\*   var y = x + 1;
\*   x = y;
\*   }
\*   print x;
SourceWhileScope ==
  <<"v", "a", "r", " ", "x", " ", "=", " ", "0", ";", "\n", "w", "h", "i",
    "l", "e", " ", "(", "x", " ", "<", " ", "2", ")", " ", "{", "\n", "v",
    "a", "r", " ", "y", " ", "=", " ", "x", " ", "+", " ", "1", ";", "\n",
    "x", " ", "=", " ", "y", ";", "\n", "}", "\n", "p", "r", "i", "n", "t",
    " ", "x", ";", "\n">>

\* WhileIf:
\*   var x = 0;
\*   while (x < 2) {
\*   if (x == 0) {
\*   var t = 5;
\*   print t;
\*   }
\*   x = x + 1;
\*   }
\*   print x;
SourceWhileIf ==
  <<"v", "a", "r", " ", "x", " ", "=", " ", "0", ";", "\n", "w", "h", "i",
    "l", "e", " ", "(", "x", " ", "<", " ", "2", ")", " ", "{", "\n", "i",
    "f", " ", "(", "x", " ", "=", "=", " ", "0", ")", " ", "{", "\n", "v",
    "a", "r", " ", "t", " ", "=", " ", "5", ";", "\n", "p", "r", "i", "n",
    "t", " ", "t", ";", "\n", "}", "\n", "x", " ", "=", " ", "x", " ", "+",
    " ", "1", ";", "\n", "}", "\n", "p", "r", "i", "n", "t", " ", "x", ";">>

\* NestedElse:
\*   if (1 == 1) {
\*   if (0 == 1) {
\*   print 1;
\*   } else {
\*   print 2;
\*   }
\*   } else {
\*   print 3;
\*   }
SourceNestedElse ==
  <<"i", "f", " ", "(", "1", " ", "=", "=", " ", "1", ")", " ", "{", "\n",
    "i", "f", " ", "(", "0", " ", "=", "=", " ", "1", ")", " ", "{", "\n",
    "p", "r", "i", "n", "t", " ", "1", ";", "\n", "}", " ", "e", "l", "s",
    "e", " ", "{", "\n", "p", "r", "i", "n", "t", " ", "2", ";", "\n", "}",
    "\n", "}", " ", "e", "l", "s", "e", " ", "{", "\n", "p", "r", "i", "n",
    "t", " ", "3", ";", "\n", "}", "\n">>

\* WhileElse:
\*   var x = 0;
\*   while (x < 2) {
\*   if (x == 5) {
\*   print 7;
\*   } else {
\*   x = x + 1;
\*   }
\*   print x;
\*   }
SourceWhileElse ==
  <<"v", "a", "r", " ", "x", " ", "=", " ", "0", ";", "\n", "w", "h", "i",
    "l", "e", " ", "(", "x", " ", "<", " ", "2", ")", " ", "{", "\n", "i",
    "f", " ", "(", "x", " ", "=", "=", " ", "5", ")", " ", "{", "\n", "p",
    "r", "i", "n", "t", " ", "7", ";", "\n", "}", " ", "e", "l", "s", "e",
    " ", "{", "\n", "x", " ", "=", " ", "x", " ", "+", " ", "1", ";", "\n",
    "}", "\n", "p", "r", "i", "n", "t", " ", "x", ";", "\n", "}", "\n">>

\* ShadowIf:
\*   var a = 1;
\*   if (1 == 1) {
\*   var a = 2;
\*   print a;
\*   a = 3;
\*   }
\*   print a;
SourceShadowIf ==
  <<"v", "a", "r", " ", "a", " ", "=", " ", "1", ";", "\n", "i", "f", " ",
    "(", "1", " ", "=", "=", " ", "1", ")", " ", "{", "\n", "v", "a", "r",
    " ", "a", " ", "=", " ", "2", ";", "\n", "p", "r", "i", "n", "t", " ",
    "a", ";", "\n", "a", " ", "=", " ", "3", ";", "\n", "}", "\n", "p", "r",
    "i", "n", "t", " ", "a", ";", "\n">>

\* ShadowElse:
\*   var a = 1;
\*   if (0 == 1) {
\*   } else {
\*   var a = 2;
\*   print a;
\*   }
\*   print a;
SourceShadowElse ==
  <<"v", "a", "r", " ", "a", " ", "=", " ", "1", ";", "\n", "i", "f", " ",
    "(", "0", " ", "=", "=", " ", "1", ")", " ", "{", "\n", "}", " ", "e",
    "l", "s", "e", " ", "{", "\n", "v", "a", "r", " ", "a", " ", "=", " ",
    "2", ";", "\n", "p", "r", "i", "n", "t", " ", "a", ";", "\n", "}", "\n",
    "p", "r", "i", "n", "t", " ", "a", ";", "\n">>

\* SurplusClose:
\*   var a = 1;
\*   }
\*   print a;
\*   a = 2;
\*   print a;
\*   a = 3;
\*   print a;
\*   a = 4;
SourceSurplusClose ==
  <<"v", "a", "r", " ", "a", " ", "=", " ", "1", ";", "\n", "}", "\n", "p",
    "r", "i", "n", "t", " ", "a", ";", "\n", "a", " ", "=", " ", "2", ";",
    "\n", "p", "r", "i", "n", "t", " ", "a", ";", "\n", "a", " ", "=", " ",
    "3", ";", "\n", "p", "r", "i", "n", "t", " ", "a", ";", "\n", "a", " ",
    "=", " ", "4", ";", "\n">>

\* ElseOnly:
\*   var a = 1;
\*   var b = 2;
\*   var c = 3;
\*   if (0 == 1) {
\*   } else {
\*   }
SourceElseOnly ==
  <<"v", "a", "r", " ", "a", " ", "=", " ", "1", ";", "\n", "v", "a", "r",
    " ", "b", " ", "=", " ", "2", ";", "\n", "v", "a", "r", " ", "c", " ",
    "=", " ", "3", ";", "\n", "i", "f", " ", "(", "0", " ", "=", "=", " ",
    "1", ")", " ", "{", "\n", "}", " ", "e", "l", "s", "e", " ", "{", "\n",
    "}">>

\* SurplusOpen:
\*   if (1 == 1) {
\*   var a = 1;
SourceSurplusOpen ==
  <<"i", "f", " ", "(", "1", " ", "=", "=", " ", "1", ")", " ", "{", "\n",
    "v", "a", "r", " ", "a", " ", "=", " ", "1", ";", "\n">>

\* Misc:
\*   // note
\*   var a = 1;
\*   #
\*   b = 2;
SourceMisc ==
  <<"/", "/", " ", "n", "o", "t", "e", "\n", "v", "a", "r", " ", "a", " ",
    "=", " ", "1", ";", "\n", "#", "\n", "b", " ", "=", " ", "2", ";", "\n">>

\* NumDecl:
\*   // declaration
\*   num a = 2;
\*   print a;
SourceNumDecl ==
  <<"/", "/", " ", "d", "e", "c", "l", "a", "r", "a", "t", "i", "o", "n",
    "\n", "n", "u", "m", " ", "a", " ", "=", " ", "2", ";", "\n", "p", "r",
    "i", "n", "t", " ", "a", ";", "\n">>

\* UndefinedRead:
\*   var a = 1;
\*   print a + q;
\*   print a;
SourceUndefinedRead ==
  <<"v", "a", "r", " ", "a", " ", "=", " ", "1", ";", "\n", "p", "r", "i",
    "n", "t", " ", "a", " ", "+", " ", "q", ";", "\n", "p", "r", "i", "n",
    "t", " ", "a", ";", "\n">>

\* StrayByte:
\*   print 1 ! 2;
SourceStrayByte ==
  <<"p", "r", "i", "n", "t", " ", "1", " ", "!", " ", "2", ";", "\n">>

\* TwoLocals:
\*   var a = 1;
\*   if (a == 1) {
\*   var b = 2;
\*   var c = b + a;
\*   print c;
\*   }
\*   print a;
SourceTwoLocals ==
  <<"v", "a", "r", " ", "a", " ", "=", " ", "1", ";", "\n", "i", "f", " ",
    "(", "a", " ", "=", "=", " ", "1", ")", " ", "{", "\n", "v", "a", "r",
    " ", "b", " ", "=", " ", "2", ";", "\n", "v", "a", "r", " ", "c", " ",
    "=", " ", "b", " ", "+", " ", "a", ";", "\n", "p", "r", "i", "n", "t",
    " ", "c", ";", "\n", "}", "\n", "p", "r", "i", "n", "t", " ", "a", ";",
    "\n">>

\* TrailingNewline:
\*   var a = 1;
SourceTrailingNewline ==
  <<"v", "a", "r", " ", "a", " ", "=", " ", "1", ";", "\n">>

\* OpenEnd:
\*   var a = 1;
\*   var b = 2;
\*   print a + b
SourceOpenEnd ==
  <<"v", "a", "r", " ", "a", " ", "=", " ", "1", ";", "\n", "v", "a", "r",
    " ", "b", " ", "=", " ", "2", ";", "\n", "p", "r", "i", "n", "t", " ",
    "a", " ", "+", " ", "b">>

\* Snippet:
\*   // snippet
\*   def g {
\*   print 7;
\*   }
\*   use g
\*   use g
SourceSnippet ==
  <<"/", "/", " ", "s", "n", "i", "p", "p", "e", "t", "\n", "d", "e", "f",
    " ", "g", " ", "{", "\n", "p", "r", "i", "n", "t", " ", "7", ";", "\n",
    "}", "\n", "u", "s", "e", " ", "g", "\n", "u", "s", "e", " ", "g", "\n">>

\* ElseRead:
\*   var b = 1;
\*   var c = 2;
\*   if (0 == 1) {
\*   } else {
\*   var a = 2;
\*   print a;
\*   }
\*   print a;
SourceElseRead ==
  <<"v", "a", "r", " ", "b", " ", "=", " ", "1", ";", "\n", "v", "a", "r",
    " ", "c", " ", "=", " ", "2", ";", "\n", "i", "f", " ", "(", "0", " ",
    "=", "=", " ", "1", ")", " ", "{", "\n", "}", " ", "e", "l", "s", "e",
    " ", "{", "\n", "v", "a", "r", " ", "a", " ", "=", " ", "2", ";", "\n",
    "p", "r", "i", "n", "t", " ", "a", ";", "\n", "}", "\n", "p", "r", "i",
    "n", "t", " ", "a", ";", "\n">>

\* PrunedRead:
\*   var b = 1;
\*   if (b == 1) {
\*   var a = 2;
\*   print a;
\*   }
\*   b = a;
\*   print b;
SourcePrunedRead ==
  <<"v", "a", "r", " ", "b", " ", "=", " ", "1", ";", "\n", "i", "f", " ",
    "(", "b", " ", "=", "=", " ", "1", ")", " ", "{", "\n", "v", "a", "r",
    " ", "a", " ", "=", " ", "2", ";", "\n", "p", "r", "i", "n", "t", " ",
    "a", ";", "\n", "}", "\n", "b", " ", "=", " ", "a", ";", "\n", "p", "r",
    "i", "n", "t", " ", "b", ";", "\n">>

ControlNames ==
  {"ChainFirst", "ChainSecond", "ChainLast", "WhileCount",
   "WhileScope", "WhileIf", "NestedElse", "WhileElse",
   "ShadowIf", "ShadowElse", "SurplusClose", "ElseOnly",
   "SurplusOpen", "Misc", "NumDecl", "UndefinedRead",
   "StrayByte", "Snippet", "ElseRead", "PrunedRead",
   "TwoLocals", "TrailingNewline", "OpenEnd"}

ControlSource(name) ==
  CASE name = "ChainFirst" -> SourceChainFirst
    [] name = "ChainSecond" -> SourceChainSecond
    [] name = "ChainLast" -> SourceChainLast
    [] name = "WhileCount" -> SourceWhileCount
    [] name = "WhileScope" -> SourceWhileScope
    [] name = "WhileIf" -> SourceWhileIf
    [] name = "NestedElse" -> SourceNestedElse
    [] name = "WhileElse" -> SourceWhileElse
    [] name = "ShadowIf" -> SourceShadowIf
    [] name = "ShadowElse" -> SourceShadowElse
    [] name = "SurplusClose" -> SourceSurplusClose
    [] name = "ElseOnly" -> SourceElseOnly
    [] name = "SurplusOpen" -> SourceSurplusOpen
    [] name = "Misc" -> SourceMisc
    [] name = "NumDecl" -> SourceNumDecl
    [] name = "UndefinedRead" -> SourceUndefinedRead
    [] name = "StrayByte" -> SourceStrayByte
    [] name = "Snippet" -> SourceSnippet
    [] name = "ElseRead" -> SourceElseRead
    [] name = "PrunedRead" -> SourcePrunedRead
    [] name = "TwoLocals" -> SourceTwoLocals
    [] name = "TrailingNewline" -> SourceTrailingNewline
    [] name = "OpenEnd" -> SourceOpenEnd

OperatorCodes == {plus, minus, multiply, divide}
LowPriority == {plus, minus}
HighPriority == {multiply, divide}

OperatorText(op) ==
  CASE op = plus -> <<"+">> [] op = minus -> <<"-">>
    [] op = multiply -> <<"*">> [] op = divide -> <<"/">>

\* operands of the generated expressions: literals and the variables x, y
Operands ==
  {<<"2">>, <<"4">>, <<"8">>, <<"3">>, <<"0", ".", "5">>, <<"0">>,
   <<"x">>, <<"y">>}

ChainOperands == {<<"2">>, <<"1", "0">>, <<"0", ".", "5">>}

\* var x = 10;
\* var y = 0 - 3;
Prelude ==
  <<"v", "a", "r", " ", "x", " ", "=", " ", "1", "0", ";", "\n",
    "v", "a", "r", " ", "y", " ", "=", " ", "0", " ", "-", " ", "3", ";", "\n">>

Binary(a, op, b) == a \o <<" ">> \o OperatorText(op) \o <<" ">> \o b
Paren(e) == <<"(">> \o e \o <<")">>
PrintText(e) == <<"p", "r", "i", "n", "t", " ">> \o e \o <<";", "\n">>

\* print a o1 b o2 c;  print (a o1 b) o2 c;  print a o1 (b o2 c);
Chain3Source(i) ==
  Prelude
  \o PrintText(Binary(Binary(i.a, i.o1, i.b), i.o2, i.c))
  \o PrintText(Binary(Paren(Binary(i.a, i.o1, i.b)), i.o2, i.c))
  \o PrintText(Binary(i.a, i.o1, Paren(Binary(i.b, i.o2, i.c))))

\* print a + b * c * d + e;  print (a + ((b * c) * d)) + e;
Chain5Source(i) ==
  PrintText(Binary(Binary(Binary(Binary(i.a, plus, i.b), multiply, i.c),
                          multiply, i.d), plus, i.e))
  \o PrintText(Binary(Paren(Binary(i.a, plus,
                  Paren(Binary(Paren(Binary(i.b, multiply, i.c)), multiply, i.d)))),
                plus, i.e))

IntegerParts == {<<"0">>, <<"7">>, <<"1", "0">>, <<"4", "2">>}
FractionParts == {<<>>, <<"5">>, <<"2", "5">>, <<"5", "0">>}

\* -?[0-9]+(\.[0-9]+)?
LiteralText(i) ==
  (IF i.negative THEN <<"-">> ELSE <<>>) \o i.int
  \o (IF i.frac = <<>> THEN <<>> ELSE <<".">> \o i.frac)

\* print <literal>;
LiteralSource(i) == PrintText(LiteralText(i))

\* a chain of two high-priority operators scales its operands twice; with a
\* decimal operand the values leave the 32-bit integers of the checker (C
\* has 64), so those chains take whole operands only
Chain3Inputs ==
  {i \in [kind : {"chain3"}, a : Operands, o1 : OperatorCodes, b : Operands,
          o2 : OperatorCodes, c : Operands] :
     (i.o1 \in HighPriority /\ i.o2 \in HighPriority)
       => <<"0", ".", "5">> \notin {i.a, i.b, i.c}}

VarText(name, e) == <<"v", "a", "r", " ">> \o name \o <<" ", "=", " ">> \o e \o <<";", "\n">>

Dividends ==
  {<<"1", "0">>, <<"3">>, <<"1", "0", "0">>, <<"0">>, <<"0", ".", "2", "5">>,
   <<"1", ".", "5">>, <<"7">>}

Divisors ==
  {<<"3">>, <<"3", "0", "0">>, <<"0">>, <<"0", ".", "2", "5">>,
   <<"1", ".", "5">>, <<"7">>}

\* var a = <a>;  var b = <b>;  print a / b;
DivideSource(i) ==
  VarText(<<"a">>, i.a) \o VarText(<<"b">>, i.b)
  \o PrintText(Binary(<<"a">>, divide, <<"b">>))

\* bytes that are no space, operator, digit, lowercase letter, ( or terminator
StrayBytes == {"\n", "\t", "!", "_", "A"}

\* print 1 + <byte>2;
StraySource(i) ==
  PrintText(<<"1", " ", "+", " ">> \o <<i.byte>> \o <<"2">>)

\* what stands between the } of an arm and the else that follows it
LayoutSeparators == {<<" ">>, <<"\n">>, <<"\n", " ", " ">>}

OpenText == <<" ", "{", "\n">>

\* five declarations, then
\* if (x == 10) {
\* print 1;
\* }<sep>else if (y == 0 - 3) {
\* print 2;
\* }<sep>else {
\* print 3;
\* }
\* print 9;
LayoutSource(i) ==
  Prelude \o VarText(<<"a">>, <<"1">>) \o VarText(<<"b">>, <<"2">>)
  \o VarText(<<"c">>, <<"3">>)
  \o <<"i", "f", " ">> \o Paren(<<"x", " ", "=", "=", " ", "1", "0">>) \o OpenText
  \o PrintText(<<"1">>)
  \o <<"}">> \o i.sep \o <<"e", "l", "s", "e", " ", "i", "f", " ">>
  \o Paren(<<"y", " ", "=", "=", " ", "0", " ", "-", " ", "3">>) \o OpenText
  \o PrintText(<<"2">>)
  \o <<"}">> \o i.sep \o <<"e", "l", "s", "e">> \o OpenText
  \o PrintText(<<"3">>)
  \o <<"}", "\n">> \o PrintText(<<"9">>)

Inputs ==
  [kind : {"control"}, name : ControlNames]
  \cup Chain3Inputs
  \cup [kind : {"divide"}, a : Dividends, b : Divisors]
  \cup [kind : {"stray"}, byte : StrayBytes]
  \cup [kind : {"layout"}, sep : LayoutSeparators]
  \cup [kind : {"chain5"}, a : ChainOperands, b : ChainOperands, c : ChainOperands,
        d : ChainOperands, e : ChainOperands]
  \cup [kind : {"literal"}, negative : BOOLEAN, int : IntegerParts,
        frac : FractionParts]

Source(i) ==
  CASE i.kind = "control" -> ControlSource(i.name)
    [] i.kind = "chain3" -> Chain3Source(i)
    [] i.kind = "chain5" -> Chain5Source(i)
    [] i.kind = "literal" -> LiteralSource(i)
    [] i.kind = "divide" -> DivideSource(i)
    [] i.kind = "stray" -> StraySource(i)
    [] i.kind = "layout" -> LayoutSource(i)

\* what the byte behind the buffer may be: a zero, a letter, a digit.  The
\* generated sources end with a print line, whose handler stops behind the
\* buffer without reading there, so the byte is varied for the others only.
OobBytes == {NUL, "a", "7"}

----------------------------------------------------------------------------
(* The specification *)

\* lines 660-669: the file is read, the arrays are empty
Init ==
  /\ input \in Inputs
  /\ file_data = Source(input)
  /\ oob \in (IF input.kind = "control" THEN OobBytes ELSE {NUL})
  /\ read_position = 0
  /\ variables = <<>>
  /\ jump_stack = <<>>
  /\ block_level = 0
  /\ output = <<>>
  /\ result = Zero
  /\ status = "running"

Next ==
  \/ CloseBrace
  \/ IfStatement
  \/ ElseIfStatement
  \/ ElseStatement
  \/ WhileStatement
  \/ Comment
  \/ NewVariable
  \/ PrintStatement
  \/ SetVariable
  \/ UnknownToken
  \/ Finish

Spec == Init /\ [][Next]_vars

----------------------------------------------------------------------------
(* Structure of the source text, used to state the properties *)

\* the position of the first { at or behind p, file_size if there is none
RECURSIVE OpenAfter(_)
OpenAfter(p) ==
  IF p >= file_size THEN file_size
  ELSE IF file_data[p + 1] = "{" THEN p ELSE OpenAfter(p + 1)

\* the position of the } that closes the block entered depth levels deep at p
RECURSIVE CloseFrom(_, _)
CloseFrom(p, depth) ==
  IF p >= file_size THEN file_size
  ELSE IF file_data[p + 1] = "{" THEN CloseFrom(p + 1, depth + 1)
  ELSE IF file_data[p + 1] = "}"
  THEN IF depth = 1 THEN p ELSE CloseFrom(p + 1, depth - 1)
  ELSE CloseFrom(p + 1, depth)

\* the position of the } matching the first { behind the keyword that ends at p
BlockClose(p) == CloseFrom(OpenAfter(p) + 1, 1)

RECURSIVE SpacesEnd(_)
SpacesEnd(p) ==
  IF p < file_size /\ file_data[p + 1] = " " THEN SpacesEnd(p + 1) ELSE p

HasText(p, text) ==
  /\ p + Len(text) <= file_size
  /\ \A i \in 1..Len(text) : file_data[p + i] = text[i]

ElseText == <<"e", "l", "s", "e">>
ElseIfText == <<"e", "l", "s", "e", " ", "i", "f">>
WhileText == <<"w", "h", "i", "l", "e">>

\* p is just behind the } of an arm: the position just behind the last arm
\* of the chain that arm belongs to
RECURSIVE ChainEnd(_)
ChainEnd(p) ==
  IF HasText(SpacesEnd(p), ElseText)
  THEN ChainEnd(BlockClose(SpacesEnd(p) + 4) + 1)
  ELSE p

\* the braces of the source are balanced
RECURSIVE BracesBalancedFrom(_, _)
BracesBalancedFrom(p, depth) ==
  IF p >= file_size THEN depth = 0
  ELSE IF file_data[p + 1] = "{" THEN BracesBalancedFrom(p + 1, depth + 1)
  ELSE IF file_data[p + 1] = "}"
  THEN depth > 0 /\ BracesBalancedFrom(p + 1, depth - 1)
  ELSE BracesBalancedFrom(p + 1, depth)

BracesBalanced == BracesBalancedFrom(0, 0)

Positions == 0..(file_size - 1)

\* the dispatcher is about to handle the } at position p
AtCloseBrace(p) == Dispatch("}") /\ Tok = p

----------------------------------------------------------------------------
(* Properties *)

\* C1: when the } of an executed arm of an if / else if / else chain is
\* handled, the cursor moves behind the whole chain, so that no statement of
\* a following else if or else arm is executed.
C1_OnlyOneArmRuns ==
  [][\A p \in Positions :
       (AtCloseBrace(p) /\ HasText(SpacesEnd(p + 1), ElseText))
         => read_position' >= ChainEnd(p + 1)]_vars

\* C2: the cursor moves backwards only when the } that closes the body of a
\* while is handled, and then to the w of that while: a body that was entered
\* is executed to its end before the condition is evaluated again.
C2_WhileBodyRunsWhole ==
  [][read_position' < read_position
       => \E w \in Positions :
            /\ HasText(w, WhileText)
            /\ AtCloseBrace(BlockClose(w + 5))
            /\ read_position' = w]_vars

\* C3: the } of an executed plain else arm only decrements the block level
\* and continues behind the }: the jump stack is left as it is.
C3_ElseCloseKeepsJumps ==
  [][\A e \in Positions :
       (/\ HasText(e, ElseText)
        /\ ~HasText(e, ElseIfText)
        /\ AtCloseBrace(BlockClose(e + 4)))
         => /\ jump_stack' = jump_stack
            /\ block_level' = block_level - 1
            /\ read_position' = BlockClose(e + 4) + 1]_vars

\* C4: when the loop of main has ended, the jump stack is empty and the
\* block level is zero exactly if the braces of the source are balanced.
C4_BlockBalance ==
  status = "done" => ((jump_stack = <<>> /\ block_level = 0) <=> BracesBalanced)

BelowLevel(v) == v.level < block_level

\* C5: handling the } of an executed block removes every variable of the
\* block's level (or a deeper one) and keeps every other variable.
C5_EnvironmentPruning ==
  [][(Dispatch("}") /\ block_level > 0)
       => variables' = SelectSeq(variables, BelowLevel)]_vars

VariableNames == {variables[i].name : i \in 1..Len(variables)}

\* the index (0-based) of the newest variable called name among those that
\* satisfy Keep, -1 if there is none
NewestIndex(name, Keep(_)) ==
  LET found == {i \in 1..Len(variables) : variables[i].name = name /\ Keep(variables[i])}
  IN IF found = {} THEN -1 ELSE (CHOOSE i \in found : \A j \in found : j <= i) - 1

AnyVariable(v) == TRUE

\* C6: a lookup resolves to the most recently declared variable of that name
\* in the environment, and once a block has closed the lookup resolves to
\* the newest variable of that name declared outside of the block.
C6_ShadowingByRecency ==
  /\ [](\A n \in VariableNames :
          get_variable_index(variables, n) = NewestIndex(n, AnyVariable))
  /\ [][(Dispatch("}") /\ block_level > 0)
          => \A n \in VariableNames :
               /\ get_variable_index(variables', n) = NewestIndex(n, BelowLevel)
               /\ NewestIndex(n, BelowLevel) >= 0
                    => array_get(variables', NewestIndex(n, BelowLevel)).value
                         = array_get(variables, NewestIndex(n, BelowLevel)).value]_vars

----------------------------------------------------------------------------
(* Properties of the expression evaluator, read off the print lines *)

\* the Number written by the k-th print line
Printed(k) == output[k].num

\* two Numbers stand for the same number
SameNumber(m, n) ==
  IF m.value = 0 \/ n.value = 0 THEN m.value = n.value
  ELSE IF m.exponent <= n.exponent
  THEN m.value = n.value * 10^(n.exponent - m.exponent)
  ELSE m.value * 10^(m.exponent - n.exponent) = n.value

\* the operands in tenths
Tenths(operand) ==
  CASE operand = <<"2">> -> 20 [] operand = <<"4">> -> 40
    [] operand = <<"8">> -> 80 [] operand = <<"3">> -> 30
    [] operand = <<"1", "0">> -> 100 [] operand = <<"0", ".", "5">> -> 5
    [] operand = <<"0">> -> 0 [] operand = <<"x">> -> 100
    [] operand = <<"y">> -> -30

\* a Number with at most d decimals, in units of 10^-d
Units(n, d) == IF n.value = 0 THEN 0 ELSE n.value * 10^(n.exponent + d)

Sum(op, m, n) == IF op = plus THEN m + n ELSE m - n

\* a chain of three operands was evaluated: all three forms are printed
Chain3Done == status = "done" /\ input.kind = "chain3" /\ Len(output) = 3
Chain5Done == status = "done" /\ input.kind = "chain5" /\ Len(output) = 2

\* C7: a high-priority operator binds tighter than a low-priority one on
\* either side: a P b M c is a P (b M c), a M b P c is (a M b) P c, and
\* a + b * c * d + e is (a + ((b * c) * d)) + e; with * these are the exact
\* sums and products of the operands.
C7_Precedence ==
  /\ (Chain3Done /\ input.o1 \in LowPriority /\ input.o2 \in HighPriority)
       => /\ SameNumber(Printed(1), Printed(3))
          /\ input.o2 = multiply
               => Units(Printed(1), 2)
                    = Sum(input.o1, Tenths(input.a) * 10, Tenths(input.b) * Tenths(input.c))
  /\ (Chain3Done /\ input.o1 \in HighPriority /\ input.o2 \in LowPriority)
       => /\ SameNumber(Printed(1), Printed(2))
          /\ input.o1 = multiply
               => Units(Printed(1), 2)
                    = Sum(input.o2, Tenths(input.a) * Tenths(input.b), Tenths(input.c) * 10)
  /\ Chain5Done
       => /\ SameNumber(Printed(1), Printed(2))
          /\ Units(Printed(1), 3)
               = Tenths(input.a) * 100
                 + Tenths(input.b) * Tenths(input.c) * Tenths(input.d)
                 + Tenths(input.e) * 100

\* 2 + 3 * 4 was evaluated to 14
C7_Witness ==
  /\ status = "done"
  /\ input = [kind |-> "chain3", a |-> <<"2">>, o1 |-> plus, b |-> <<"3">>,
              o2 |-> multiply, c |-> <<"4">>]
  /\ Printed(1) = Number(14, 0)

\* C8: operators of the same priority are applied from left to right:
\* a o1 b o2 c is (a o1 b) o2 c.
C8_LeftAssociative ==
  (Chain3Done /\ ((input.o1 \in LowPriority) <=> (input.o2 \in LowPriority)))
    => SameNumber(Printed(1), Printed(2))

Compacted(n) == n.value # 0 => n.value % 10 # 0

\* C9: every Number returned by evaluate_expression, stored in a variable or
\* printed has no trailing zero digit in a value other than zero.
C9_NumbersCompacted ==
  /\ Compacted(result)
  /\ \A i \in 1..Len(variables) : Compacted(variables[i].value)
  /\ \A k \in 1..Len(output) : output[k].kind = "print" => Compacted(Printed(k))

\* 2 / 4 + 0 was evaluated (500 * 10^-3 in the window) and printed as
\* 5 * 10^-1, with x = 10 stored as 1 * 10^1
C9_Witness ==
  /\ status = "done"
  /\ input = [kind |-> "chain3", a |-> <<"2">>, o1 |-> divide, b |-> <<"4">>,
              o2 |-> plus, c |-> <<"0">>]
  /\ Printed(1) = Number(5, -1)
  /\ result = Number(5, -1)
  /\ variables[1].value = Number(1, 1)

RECURSIVE DigitsValue(_)
DigitsValue(digits) ==
  IF digits = <<>> THEN 0
  ELSE DigitsValue(SubSeq(digits, 1, Len(digits) - 1)) * 10
       + DigitVal(digits[Len(digits)])

\* the literal of input i in units of 10^-Len(i.frac)
LiteralUnits(i) ==
  IF i.negative THEN -DigitsValue(i.int \o i.frac) ELSE DigitsValue(i.int \o i.frac)

\* C10: a numeric literal evaluates to the number it spells.
C10_LiteralDenotation ==
  (status = "done" /\ input.kind = "literal")
    => /\ Len(output) = 1
       /\ Printed(1).exponent + Len(input.frac) >= 0
       /\ Units(Printed(1), Len(input.frac)) = LiteralUnits(input)

----------------------------------------------------------------------------
(* Division *)

Min(m, n) == IF m <= n THEN m ELSE n

\* the division as specified: three guard decimals, plus those that offset a
\* negative exponent of a
DivideReference(a, b) ==
  IF b.value = 0 THEN Zero
  ELSE Number(ScaledQuotient(a.value, 3 + Abs(Min(a.exponent, 0)), b.value),
              a.exponent - (3 + Abs(Min(a.exponent, 0))) - b.exponent)

\* the operands of print a / b as they reach divide_numbers (line 346)
Dividend == align_exponents(variables[1].value, variables[2].value)[1]
Divisor == align_exponents(variables[1].value, variables[2].value)[2]

\* C11: divide_numbers returns what the specified division returns, {0, 0}
\* for a divisor of value 0 included: for the operands of every a / b that is
\* evaluated both agree, and the line printed is the compacted quotient of
\* the specified division.
C11_DivideReference ==
  (input.kind = "divide" /\ Len(variables) = 2)
    => /\ divide_numbers(Dividend, Divisor) = DivideReference(Dividend, Divisor)
       /\ status = "done"
            => output = <<PrintLine(compact_number(DivideReference(Dividend, Divisor)))>>

----------------------------------------------------------------------------
(* Bytes the evaluator does not know *)

\* C12: a byte inside an expression that the evaluator does not know is
\* skipped: the evaluation ends at the next terminator with the value of the
\* operands, so print 1 + <byte>2; writes 3 and the interpreter goes on.
C12_UnknownByteIgnored ==
  input.kind = "stray"
    => /\ status # "hang"
       /\ status = "done" => output = <<PrintLine(Number(3, 0))>>

----------------------------------------------------------------------------
(* The cursor *)

\* the source has no while statement
NoWhile == \A p \in Positions : ~HasText(p, WhileText)

\* the dispatcher is about to handle a } that pops an iterate jump
ClosesIteration ==
  /\ Dispatch("}")
  /\ jump_stack # <<>>
  /\ jump_stack[Len(jump_stack)].type = iterate

\* C13: every call of the dispatcher leaves the cursor strictly behind where
\* it was, unless it handles a } that pops an iterate jump; hence with a
\* source without while the loop of main gets to the end of the buffer: no
\* call stops the interpreter before or fails to return.
C13_CursorMonotone ==
  /\ [][status' = "running"
          => (read_position' > read_position \/ ClosesIteration)]_vars
  /\ [](NoWhile => status \in {"running", "done"})

----------------------------------------------------------------------------
(* Names *)

\* the names that occur from p to the end of the line: a name starts with a
\* lowercase letter and runs over lowercase letters and _
RECURSIVE LineNames(_)
LineNames(p) ==
  IF p >= file_size \/ file_data[p + 1] = "\n" THEN {}
  ELSE IF file_data[p + 1] \in Lower
  THEN {ScanName(p, <<>>).name} \cup LineNames(ScanName(p, <<>>).pos)
  ELSE LineNames(p + 1)

\* the names the statement the dispatcher is about to handle refers to: the
\* names read by its expressions and, for an assignment, its target
StatementNames ==
  CASE TokenKind(Tok) = "print" -> LineNames(Tok + 5)
    [] TokenKind(Tok) = "var" -> LineNames(ScanName(SkipSpaceTokens(Tok + 3), <<>>).pos)
    [] TokenKind(Tok) = "set" -> LineNames(Tok)
    [] TokenKind(Tok) = "if" -> LineNames(Tok + 2)
    [] TokenKind(Tok) = "else if" -> LineNames(Tok + 7)
    [] TokenKind(Tok) = "while" -> LineNames(Tok + 5)
    [] OTHER -> {}

\* how many blocks are open in front of position p; a } that has no { to
\* match closes nothing
RECURSIVE DepthAt(_)
DepthAt(p) ==
  IF p = 0 THEN 0
  ELSE IF file_data[p] = "{" THEN DepthAt(p - 1) + 1
  ELSE IF file_data[p] = "}" /\ DepthAt(p - 1) > 0 THEN DepthAt(p - 1) - 1
  ELSE DepthAt(p - 1)

\* the block that position d is in is not closed between d and p
OpenThrough(d, p) ==
  \A q \in d..(p - 1) :
    file_data[q + 1] = "}" => (DepthAt(d) = 0 \/ DepthAt(q) # DepthAt(d))

VarText4 == <<"v", "a", "r", " ">>

\* a declaration of name stands in front of p, in a block that is still open
\* at p
DeclaredAt(name, p) ==
  \E d \in Positions :
    /\ d < p
    /\ HasText(d, VarText4)
    /\ ScanName(d + 4, <<>>).name = name
    /\ OpenThrough(d, p)

\* C14: a statement that refers to a name no declaration in a block still
\* open provides stops the interpreter with an error: no variable is created
\* or changed, nothing is printed, an assignment to such a name stops behind
\* the name without evaluating its right-hand side, and nothing is executed
\* after the stop.
C14_UndefinedNameFatal ==
  /\ [][(/\ status = "running"
         /\ read_position < file_size
         /\ \E n \in StatementNames : ~DeclaredAt(n, Tok))
          => /\ status' = "exit"
             /\ UNCHANGED <<variables, output, jump_stack, block_level>>
             /\ (TokenKind(Tok) = "set" /\ ~DeclaredAt(ScanName(Tok, <<>>).name, Tok))
                  => read_position' = ScanName(Tok, <<>>).pos]_vars
  /\ [][status # "exit"]_vars

----------------------------------------------------------------------------
(* Snippets and declarations *)

UseText == <<"u", "s", "e", " ">>

\* the position of the first use statement, file_size if there is none
RECURSIVE FirstUse(_)
FirstUse(p) ==
  IF p >= file_size THEN file_size
  ELSE IF HasText(p, UseText) THEN p ELSE FirstUse(p + 1)

\* C15: def g { print 7; } prints nothing where it stands, each of the two
\* use g lines behind it prints 7 once, and the interpreter gets to the end
\* of the buffer.
C15_Snippets ==
  (input.kind = "control" /\ input.name = "Snippet")
    => /\ status \in {"running", "done"}
       /\ read_position <= FirstUse(0) => output = <<>>
       /\ status = "done" => output = <<PrintLine(Number(7, 0)), PrintLine(Number(7, 0))>>

NumText == <<"n", "u", "m", " ">>

\* the declaration starting at p: the name declared and the cursor behind it
Declared(p) == ScanName(SkipSpaceTokens(p + 3), <<>>)

\* the effect of a declaration whose keyword stands at p
DeclarationEffect(p) ==
  /\ status' = "running"
  /\ Len(variables') = Len(variables) + 1
  /\ SubSeq(variables', 1, Len(variables)) = variables
  /\ variables'[Len(variables')] =
       [name |-> Declared(p).name, value |-> result', level |-> block_level]
  /\ result' = evaluate_expression(SkipSpacesAndEquals(Declared(p).pos)).num
  /\ read_position' > 0
  /\ At(read_position' - 1) = ";"
  /\ UNCHANGED <<jump_stack, block_level, output>>

\* C16: a statement num name = expr; appends one variable {name, value of
\* expr, current block level} to the environment, leaves the others as they
\* are and continues behind the ; at block level 0 as at any other.
C16_NumDeclaration ==
  [][(status = "running" /\ read_position < file_size /\ HasText(Tok, NumText))
       => DeclarationEffect(Tok)]_vars

----------------------------------------------------------------------------
(* Layout *)

\* C17: whatever stands between the } of the taken if arm and the else
\* behind it (a space, a newline, a newline and indentation), the else arms
\* that follow are skipped: only the lines of the taken arm and of the
\* statement behind the chain are printed.
C17_LayoutInsignificant ==
  input.kind = "layout"
    => /\ \A k \in 1..Len(output) :
            output[k] \in {PrintLine(Number(1, 0)), PrintLine(Number(9, 0))}
       /\ status = "done" => output = <<PrintLine(Number(1, 0)), PrintLine(Number(9, 0))>>

----------------------------------------------------------------------------
(* Assignment, pruning and the block level *)

\* the target of the assignment the dispatcher is about to handle
Target == ScanName(Tok, <<>>).name

\* C18: an assignment to a name the environment holds changes the value of
\* the newest variable of that name to the value of the expression and
\* nothing else: the length and order of the environment, the name and the
\* level of that variable, every other variable, the jump stack and the
\* block level stay as they are.
C18_AssignmentFrame ==
  [][(Dispatch("set") /\ NewestIndex(Target, AnyVariable) >= 0)
       => /\ Len(variables') = Len(variables)
          /\ \A i \in 1..Len(variables) :
               /\ variables'[i].name = variables[i].name
               /\ variables'[i].level = variables[i].level
               /\ i # NewestIndex(Target, AnyVariable) + 1 => variables'[i] = variables[i]
          /\ status' = "running"
               => /\ array_get(variables', NewestIndex(Target, AnyVariable)).value = result'
                  /\ result' = evaluate_expression(
                                  SkipSpacesAndEquals(ScanName(Tok, <<>>).pos)).num
          /\ UNCHANGED <<jump_stack, block_level, output>>]_vars

\* in ShadowIf the inner a was set to 3 while the outer a kept its 1
C18_Witness ==
  /\ input.kind = "control"
  /\ input.name = "ShadowIf"
  /\ variables = <<[value |-> Number(1, 0), name |-> <<"a">>, level |-> 0],
                   [value |-> Number(3, 0), name |-> <<"a">>, level |-> 1]>>

NotAtLevel(v) == v.level # block_level

\* C19: the levels of the environment never decrease from the oldest to the
\* newest variable and none is above the block level, so the variables of
\* the block level are the tail of the environment; the pruning of a }
\* removes exactly these and leaves the others in place.
C19_ContiguousSuffix ==
  /\ [](\A i \in 1..Len(variables) :
          /\ variables[i].level <= block_level
          /\ i > 1 => variables[i - 1].level <= variables[i].level)
  /\ [][(Dispatch("}") /\ jump_stack # <<>>)
          => /\ variables' = SelectSeq(variables, NotAtLevel)
             /\ variables' = SubSeq(variables, 1, Len(variables'))]_vars

\* in TwoLocals the } of the if arm removed b and c and kept a
C19_Witness ==
  /\ input.kind = "control"
  /\ input.name = "TwoLocals"
  /\ status = "done"
  /\ output = <<PrintLine(Number(3, 0)), PrintLine(Number(1, 0))>>
  /\ variables = <<[value |-> Number(1, 0), name |-> <<"a">>, level |-> 0]>>
  /\ block_level = 0

\* C20: the block level is never below the number of entries on the jump
\* stack and never negative, and a } met with an empty jump stack moves the
\* cursor from the } to the byte behind it and changes nothing else.
C20_LevelAboveJumps ==
  /\ [](block_level >= Len(jump_stack) /\ block_level >= 0)
  /\ [][(Dispatch("}") /\ jump_stack = <<>>)
          => /\ At(Tok) = "}"
             /\ read_position' = Tok + 1
             /\ UNCHANGED <<variables, jump_stack, block_level, output, result,
                            status, file_data>>]_vars

\* in SurplusClose the } of the second line was passed with an empty jump
\* stack: the cursor is behind it, a is still there, the level is still 0
C20_Witness ==
  /\ input.kind = "control"
  /\ input.name = "SurplusClose"
  /\ read_position = 12
  /\ Len(variables) = 1
  /\ block_level = 0
  /\ jump_stack = <<>>

----------------------------------------------------------------------------
(* Reads of the source buffer *)

\* The positions at which a call reads file_data[read_position] without the
\* test of is_token: the dispatcher in lines 635 and 640, the evaluator in
\* lines 262 and 276, the scanners of numbers and names in lines 113-117,
\* 167, 378 and 416.  A scanner reads every position up to the one it stops
\* at.

\* evaluate_expression called with the cursor at p
RECURSIVE EvalReads(_), EvalReadsAt(_, _), EvalReadsBehind(_, _)

\* the evaluation goes on behind an operand r that was read without error
EvalReadsBehind(r, skip) ==
  IF r.outcome = "ok" THEN EvalReads(r.pos + skip) ELSE {}

\* one pass of the loop of line 241 with the cursor at q behind the spaces
EvalReadsAt(p, q) ==
  IF \/ is_token(q, <<"+">>) \/ is_token(q, <<"-">>)
     \/ is_token(q, <<"*">>) \/ is_token(q, <<"/">>)
  THEN EvalReads(q + 1)
  ELSE {q} \cup
       (IF At(q) \in Digits
        THEN {parse_number(q).pos} \cup EvalReads(parse_number(q).pos)
        ELSE IF At(q) \in Lower
        THEN {ScanName(q, <<>>).pos} \cup EvalReadsBehind(parse_get_variable(q), 0)
        ELSE IF is_token(q, <<"(">>)
        THEN EvalReads(q + 1) \cup EvalReadsBehind(evaluate_expression(q + 1), 1)
        ELSE IF q = p THEN {} ELSE EvalReads(q))

EvalReads(p) ==
  IF IsTerminator(p) \/ ~(p < file_size) THEN {}
  ELSE EvalReadsAt(p, SkipSpaceTokens(p))

\* evaluate_condition called with the cursor at p; first is the outcome of
\* its first evaluation
ConditionReadsBehind(first) ==
  IF first.outcome = "ok"
  THEN EvalReads(skip_spaces(ReadComparator(skip_spaces(first.pos)).pos))
  ELSE {}

ConditionReads(p) == EvalReads(p) \cup ConditionReadsBehind(evaluate_expression(p))

\* set_variable called with the cursor at p
SetReads(p) ==
  {ScanName(p, <<>>).pos} \cup
  (IF get_variable_index(variables, ScanName(p, <<>>).name) >= 0
   THEN EvalReads(SkipSpacesAndEquals(ScanName(p, <<>>).pos))
   ELSE {})

\* the call of parse_token the dispatcher is about to make
StatementReads ==
  CASE TokenKind(Tok) = "print" -> EvalReads(Tok + 6)
    [] TokenKind(Tok) = "var" ->
         {Declared(Tok).pos} \cup EvalReads(SkipSpacesAndEquals(Declared(Tok).pos))
    [] TokenKind(Tok) = "set" -> {Tok} \cup SetReads(Tok)
    [] TokenKind(Tok) = "if" -> ConditionReads(skip_spaces(Tok + 2) + 1)
    [] TokenKind(Tok) = "else if" -> ConditionReads(skip_spaces(Tok + 7) + 1)
    [] TokenKind(Tok) = "while" -> ConditionReads(skip_spaces(Tok + 5) + 1)
    [] TokenKind(Tok) = "other" -> {Tok}
    [] OTHER -> {}

\* C21: every read of the source buffer is at an offset below file_size: no
\* call of the dispatcher, with the evaluations and scans it makes, looks at
\* a byte at or behind the end of the buffer, and no Unknown token line is
\* written for such a byte.
C21_ReadsInBounds ==
  [][(status = "running" /\ read_position < file_size)
       => /\ \A r \in StatementReads : r < file_size
          /\ (Len(output') > Len(output) /\ output'[Len(output')].kind = "unknown")
               => Tok < file_size]_vars

====
